---- MODULE Spec2Model ----
(***************************************************************************)
(* London bicycle hires dashboard (src/app.py).                            *)
(*                                                                         *)
(* The page is a script that is executed from top to bottom on every user  *)
(* interaction.  Its analytical content is three SQL queries over the two  *)
(* tables cycle_hire and cycle_stations, and some arithmetic on the        *)
(* returned data frames.  The tables are modelled as values, the queries   *)
(* as operators that compute what the SQL text computes, and one script    *)
(* run as one action.                                                      *)
(*                                                                         *)
(* Dates are day numbers counted from MIN_DATE (2015-01-04, a Sunday).     *)
(* A timestamp is a record [date, hour, minute].  cycle_hire is a bag of   *)
(* trips: a function from trip rows to the number of hires with exactly    *)
(* these columns (the queries never read rental_id).                       *)
(***************************************************************************)
EXTENDS Integers, Sequences, FiniteSets, TLC

VARIABLES
    cycle_stations,     \* table: station id -> [name, docks_count]
    cycle_hire,         \* table: bag of [start_station_id, end_station_id, start_date, end_date]
    start_date,         \* sidebar date input "Start date:"
    end_date,           \* sidebar date input "End date:"
    selected_interval,  \* sidebar selectbox "Analysis interval for insights:"
    selected_station,   \* selectbox of section 2.1 (0: never chosen by the user)
    cache,              \* st.cache_data store of run_query: query key -> data frame
    page                \* what the last script run computed and rendered

vars == <<cycle_stations, cycle_hire, start_date, end_date, selected_interval,
          selected_station, cache, page>>

----------------------------------------------------------------------------
(* Program constants *)

MIN_DATE == 0
MAX_DATE == 8
default_start_date == 1
default_end_date == 7

NearCapacityPct == 80
PeakPct == 95
AtCapacityPct == 100
TopN == 10
SignificantFlow == 20
DaysPerWeek == 7

----------------------------------------------------------------------------
(* Bounds of the model *)

MaxBatches == 3
MaxPageBatches == 2
MaxCachedWindows == 1
MaxWindowDays == 70
NumRankStations == 11

----------------------------------------------------------------------------
(* Timestamps *)

Stamp(d, h, m) == [date |-> d, hour |-> h, minute |-> m]

\* TIMESTAMP('YYYY-MM-DD'): midnight at the start of that date.
TIMESTAMP(d) == Stamp(d, 0, 0)

TsLeq(a, b) ==
    \/ a.date < b.date
    \/ a.date = b.date /\ a.hour < b.hour
    \/ a.date = b.date /\ a.hour = b.hour /\ a.minute <= b.minute

\* x BETWEEN lo AND hi
BETWEEN(x, lo, hi) == TsLeq(lo, x) /\ TsLeq(x, hi)

\* EXTRACT(DAYOFWEEK FROM ts): 1 = Sunday ... 7 = Saturday; day 0 is a Sunday.
DAYOFWEEK(d) == (d % DaysPerWeek) + 1

----------------------------------------------------------------------------
(* Aggregates over a bag and over a set of rows *)

RECURSIVE BagSum(_, _)
BagSum(B, S) ==
    IF S = {} THEN 0
    ELSE LET x == CHOOSE y \in S : TRUE
         IN  B[x] + BagSum(B, S \ {x})

RECURSIVE SumOf(_, _)
SumOf(f, S) ==
    IF S = {} THEN 0
    ELSE LET x == CHOOSE y \in S : TRUE
         IN  f[x] + SumOf(f, S \ {x})

Abs(n) == IF n < 0 THEN -n ELSE n

Max(S) == CHOOSE x \in S : \A y \in S : y <= x

\* a rational number num/den with den > 0
Ratio(n, d) == [num |-> n, den |-> d]
RatLess(a, b) == a.num * b.den < b.num * a.den
RatEq(a, b) == a.num * b.den = b.num * a.den

\* ROUND(x, 1) of a non-negative rational, in tenths (halves round away from 0)
ROUND1(r) == (20 * r.num + r.den) \div (2 * r.den)

RECURSIVE RatSum(_, _)
RatSum(f, S) ==
    IF S = {} THEN Ratio(0, 1)
    ELSE LET x == CHOOSE y \in S : TRUE
             r == RatSum(f, S \ {x})
         IN  Ratio(f[x].num * r.den + r.num * f[x].den, f[x].den * r.den)

\* AVG(col) over a non-empty set of rows, col given as a function of the row
AvgRat(f, S) == LET t == RatSum(f, S) IN Ratio(t.num, t.den * Cardinality(S))

\* a nullable column: NULL, or a value
NULL == {}
Val(v) == {v}
notnull(x) == x # NULL
ValueOf(x) == CHOOSE v \in x : TRUE

----------------------------------------------------------------------------
(* Section 2: the capacity query, full_stations_query *)

\* the name column of cycle_stations
NameOf(id) == cycle_stations[id].name

\* WITH hourly_station_status AS (...): arrivals per station, date and hour
hourly_station_status(sd, ed) ==
    LET joined == {h \in DOMAIN cycle_hire :
                      /\ h.end_station_id \in DOMAIN cycle_stations
                      /\ BETWEEN(h.end_date, TIMESTAMP(sd), TIMESTAMP(ed))
                      /\ cycle_stations[h.end_station_id].docks_count > 0}
        keys == {<<h.end_station_id, h.end_date.date, h.end_date.hour>> : h \in joined}
        cnt(k) == BagSum(cycle_hire,
                         {h \in joined : /\ h.end_station_id = k[1]
                                         /\ h.end_date.date = k[2]
                                         /\ h.end_date.hour = k[3]})
    IN  {[end_station_id   |-> k[1],
          station_name     |-> NameOf(k[1]),
          total_docks      |-> cycle_stations[k[1]].docks_count,
          date             |-> k[2],
          hour             |-> k[3],
          day_of_week      |-> DAYOFWEEK(k[2]),
          arrivals_in_hour |-> cnt(k),
          utilisation_pct  |-> Ratio(cnt(k) * 100, cycle_stations[k[1]].docks_count)]
         : k \in keys}

\* utilisation_pct >= pct
AtLeast(row, pct) == ~RatLess(row.utilisation_pct, Ratio(pct, 1))

\* peak_hours before QUALIFY: one row per (station_name, hour, day_of_week)
peak_groups(sd, ed) ==
    LET src == {r \in hourly_station_status(sd, ed) : AtLeast(r, PeakPct)}
        keys == {<<r.station_name, r.hour, r.day_of_week>> : r \in src}
        grp(k) == {r \in src : /\ r.station_name = k[1]
                               /\ r.hour = k[2]
                               /\ r.day_of_week = k[3]}
    IN  {[station_name     |-> k[1],
          hour             |-> k[2],
          day_of_week      |-> k[3],
          num_occurrences  |-> Cardinality(grp(k)),
          avg_util_at_hour |-> AvgRat([r \in grp(k) |-> r.utilisation_pct], grp(k))]
         : k \in keys}

\* a slip in the ORDER BY of peak_hours: the two sort keys swapped
PeakBeforeAvgFirst(a, b) ==
    \/ RatLess(b.avg_util_at_hour, a.avg_util_at_hour)
    \/ /\ RatEq(a.avg_util_at_hour, b.avg_util_at_hour)
       /\ a.num_occurrences > b.num_occurrences

\* ORDER BY num_occurrences DESC, avg_util_at_hour DESC: a sorts strictly before b
PeakBefore(a, b) ==
    \/ a.num_occurrences > b.num_occurrences
    \/ /\ a.num_occurrences = b.num_occurrences
       /\ RatLess(b.avg_util_at_hour, a.avg_util_at_hour)

\* the rows ROW_NUMBER() ... = 1 may keep for one station: the engine numbers
\* rows that tie on both sort keys in an order of its own
RowNumberOne(groups, name) ==
    LET part == {g \in groups : g.station_name = name}
    IN  {g \in part : \A q \in part : ~PeakBefore(q, g)}

RECURSIVE OnePerStation(_, _)
OnePerStation(groups, names) ==
    IF names = {} THEN {{}}
    ELSE LET n == CHOOSE x \in names : TRUE
         IN  {rest \cup {g} : rest \in OnePerStation(groups, names \ {n}),
                              g \in RowNumberOne(groups, n)}

\* WITH peak_hours AS (...): every table the QUALIFY clause can produce
peak_hours(sd, ed) ==
    LET groups == peak_groups(sd, ed)
    IN  OnePerStation(groups, {g.station_name : g \in groups})

\* the subquery s: one row per (station_name, total_docks)
station_summary(sd, ed) ==
    LET src == {r \in hourly_station_status(sd, ed) :
                   AtLeast(r, NearCapacityPct) /\ r.total_docks > 0}
        keys == {<<r.station_name, r.total_docks>> : r \in src}
        grp(k) == {r \in src : r.station_name = k[1] /\ r.total_docks = k[2]}
        util(k) == [r \in grp(k) |-> r.utilisation_pct]
        arr(k) == [r \in grp(k) |-> Ratio(r.arrivals_in_hour, 1)]
        maxu(k) == CHOOSE r \in grp(k) :
                      \A q \in grp(k) : ~RatLess(r.utilisation_pct, q.utilisation_pct)
    IN  {[station_name            |-> k[1],
          total_docks             |-> k[2],
          instances_near_capacity |-> Cardinality(grp(k)),
          instances_at_capacity   |-> Cardinality({r \in grp(k) : AtLeast(r, AtCapacityPct)}),
          avg_hourly_arrivals     |-> ROUND1(AvgRat(arr(k), grp(k))),
          avg_utilisation_pct     |-> ROUND1(AvgRat(util(k), grp(k))),
          max_hourly_arrivals     |-> Max({r.arrivals_in_hour : r \in grp(k)}),
          max_utilisation_pct     |-> ROUND1(maxu(k).utilisation_pct)]
         : k \in keys}

\* s LEFT JOIN peak_hours p ON s.station_name = p.station_name
LeftJoinPeak(s, peaks) ==
    LET m == {p \in peaks : p.station_name = s.station_name}
    IN  IF m = {}
        THEN {[summary |-> s, peak_hour |-> NULL, peak_day_of_week |-> NULL,
               peak_hour_occurrences |-> NULL, peak_hour_avg_util |-> NULL]}
        ELSE {[summary |-> s, peak_hour |-> Val(p.hour),
               peak_day_of_week |-> Val(p.day_of_week),
               peak_hour_occurrences |-> Val(p.num_occurrences),
               peak_hour_avg_util |-> Val(p.avg_util_at_hour)] : p \in m}

\* a slip in the final ORDER BY: the two sort keys swapped
RankBeforeNearFirst(a, b) ==
    \/ a.summary.instances_near_capacity > b.summary.instances_near_capacity
    \/ /\ a.summary.instances_near_capacity = b.summary.instances_near_capacity
       /\ a.summary.instances_at_capacity > b.summary.instances_at_capacity

\* ORDER BY s.instances_at_capacity DESC, s.instances_near_capacity DESC
RankBefore(a, b) ==
    \/ a.summary.instances_at_capacity > b.summary.instances_at_capacity
    \/ /\ a.summary.instances_at_capacity = b.summary.instances_at_capacity
       /\ a.summary.instances_near_capacity > b.summary.instances_near_capacity

\* ORDER BY ... LIMIT n: every sequence the engine can return (rows that tie on
\* both sort keys come in an order of its own)
RECURSIVE OrderByLimit(_, _)
OrderByLimit(rows, n) ==
    IF rows = {} \/ n = 0 THEN {<<>>}
    ELSE UNION {{<<r>> \o t : t \in OrderByLimit(rows \ {r}, n - 1)}
                : r \in {x \in rows : \A q \in rows : ~RankBefore(q, x)}}

\* full_stations_query: every data frame the query can return
full_stations_query(sd, ed) ==
    LET s == station_summary(sd, ed)
    IN  UNION {OrderByLimit(UNION {LeftJoinPeak(r, peaks) : r \in s}, TopN)
               : peaks \in peak_hours(sd, ed)}

----------------------------------------------------------------------------
(* Section 3: the combined query, combined_analysis_query *)

\* CASE WHEN EXTRACT(DAYOFWEEK ...) IN (1, 7) THEN 'Weekend' ELSE 'Weekday' END
DayType(d) == IF DAYOFWEEK(d) \in {1, 7} THEN "Weekend" ELSE "Weekday"

\* WITH peak_times AS (...): arrivals per hour of day and day type, all stations
peak_times(sd, ed) ==
    LET src == {h \in DOMAIN cycle_hire :
                   BETWEEN(h.end_date, TIMESTAMP(sd), TIMESTAMP(ed))}
        keys == {<<h.end_date.hour, DayType(h.end_date.date)>> : h \in src}
    IN  {[hour_of_day |-> k[1],
          day_type    |-> k[2],
          arrivals    |-> BagSum(cycle_hire,
                                 {h \in src : /\ h.end_date.hour = k[1]
                                              /\ DayType(h.end_date.date) = k[2]})]
         : k \in keys}

\* a slip in the join of station_flows: each leg of a hire matched by its own
\* timestamp, the start by start_date and the end by end_date
FlowMatchesByLeg(id, sd, ed) ==
    {h \in DOMAIN cycle_hire :
        \/ id = h.start_station_id
             /\ BETWEEN(h.start_date, TIMESTAMP(sd), TIMESTAMP(ed))
        \/ id = h.end_station_id
             /\ BETWEEN(h.end_date, TIMESTAMP(sd), TIMESTAMP(ed))}

\* the hires the LEFT JOIN of station_flows matches to station id
FlowMatches(id, sd, ed) ==
    {h \in DOMAIN cycle_hire :
        /\ id = h.start_station_id \/ id = h.end_station_id
        /\ BETWEEN(h.start_date, TIMESTAMP(sd), TIMESTAMP(ed))}

\* WITH station_flows AS (...): one row per station with docks_count > 0
station_flows(sd, ed) ==
    LET out(id) == BagSum(cycle_hire,
                          {h \in FlowMatches(id, sd, ed) : h.start_station_id = id})
        in(id)  == BagSum(cycle_hire,
                          {h \in FlowMatches(id, sd, ed) : h.end_station_id = id})
    IN  {[station_id   |-> id,
          station_name |-> NameOf(id),
          total_docks  |-> cycle_stations[id].docks_count,
          outflows     |-> out(id),
          inflows      |-> in(id),
          net_flow     |-> in(id) - out(id)]
         : id \in {i \in DOMAIN cycle_stations : cycle_stations[i].docks_count > 0}}

\* CASE WHEN net_flow > 0 ... WHEN net_flow < 0 ... ELSE 'Balanced' END
StationType(net_flow) ==
    IF net_flow > 0 THEN "Accumulator (Fills Up)"
    ELSE IF net_flow < 0 THEN "Generator (Empties Out)"
    ELSE "Balanced"

\* WHERE (outflows > 0 OR inflows > 0) AND ABS(net_flow) > 20
Significant(r) ==
    /\ r.outflows > 0 \/ r.inflows > 0
    /\ Abs(r.net_flow) > SignificantFlow

\* the 'station_flows' branch of the UNION ALL
station_flows_rows(sd, ed) ==
    {[id            |-> r.station_id,
      name          |-> r.station_name,
      total_docks   |-> r.total_docks,
      outflows      |-> r.outflows,
      inflows       |-> r.inflows,
      net_flow      |-> r.net_flow,
      imbalance_pct |-> Ratio(r.net_flow * 100, r.total_docks),
      station_type  |-> StationType(r.net_flow)]
     : r \in {x \in station_flows(sd, ed) : Significant(x)}}

\* combined_analysis_query: the data frame, split by data_type as the page does
combined_analysis_query(sd, ed) ==
    [peak_times    |-> peak_times(sd, ed),
     station_flows |-> station_flows_rows(sd, ed)]

----------------------------------------------------------------------------
(* Section 2.1: the hourly query of one station, hourly_capacity_query *)

DayName(dow) ==
    CASE dow = 1 -> "Sunday"
      [] dow = 2 -> "Monday"
      [] dow = 3 -> "Tuesday"
      [] dow = 4 -> "Wednesday"
      [] dow = 5 -> "Thursday"
      [] dow = 6 -> "Friday"
      [] dow = 7 -> "Saturday"

\* WITH hourly_data AS (...): the slots of the station named station
hourly_data(sd, ed, station) ==
    {r \in hourly_station_status(sd, ed) : r.station_name = station}

\* ORDER BY day_of_week, hour: the rows are distinct in these two columns
RECURSIVE SortByDayHour(_)
SortByDayHour(rows) ==
    IF rows = {} THEN <<>>
    ELSE LET first == CHOOSE r \in rows : \A q \in rows :
                          \/ r.day_of_week < q.day_of_week
                          \/ r.day_of_week = q.day_of_week /\ r.hour <= q.hour
         IN  <<first>> \o SortByDayHour(rows \ {first})

hourly_capacity_query(sd, ed, station) ==
    LET src == hourly_data(sd, ed, station)
        keys == {<<r.hour, r.day_of_week>> : r \in src}
        grp(k) == {r \in src : r.hour = k[1] /\ r.day_of_week = k[2]}
        maxu(k) == CHOOSE r \in grp(k) :
                      \A q \in grp(k) : ~RatLess(r.utilisation_pct, q.utilisation_pct)
    IN  SortByDayHour(
          {[hour                |-> k[1],
            day_of_week         |-> k[2],
            day_name            |-> DayName(k[2]),
            avg_arrivals        |-> AvgRat([r \in grp(k) |-> Ratio(r.arrivals_in_hour, 1)],
                                           grp(k)),
            avg_utilisation_pct |-> AvgRat([r \in grp(k) |-> r.utilisation_pct], grp(k)),
            max_utilisation_pct |-> maxu(k).utilisation_pct,
            near_capacity_count |-> Cardinality({r \in grp(k) :
                                                    /\ AtLeast(r, NearCapacityPct)
                                                    /\ ~AtLeast(r, AtCapacityPct)}),
            at_capacity_count   |-> Cardinality({r \in grp(k) :
                                                    AtLeast(r, AtCapacityPct)})]
           : k \in keys})

\* A station name is a number here; the negative numbers stand for the names
\* that contain an apostrophe ("Belgrove Street , King's Cross").
HasApostrophe(name) == name < 0

\* what executing the text of the hourly query can return: the name is pasted
\* between single quotes as it is (AND s.name = '{selected_station}'), so a name
\* with an apostrophe ends the literal early, the text is not a query and every
\* execution of it raises
hourly_capacity_results(sd, ed, station) ==
    IF HasApostrophe(station)
    THEN {}
    ELSE {hourly_capacity_query(sd, ed, station)}

----------------------------------------------------------------------------
(* run_query and its cache *)

\* the query text is a function of the dates (and the station) formatted into it
QueryKey(q, sd, ed, station) == [query |-> q, sd |-> sd, ed |-> ed, station |-> station]

\* a data frame: the rows, and whether the query ran (st.error is shown if not)
Frame(rows) == [ok |-> TRUE, rows |-> rows]

\* pd.DataFrame(), returned when the query raises
FailedFrame(empty) == [ok |-> FALSE, rows |-> empty]

\* run_query under st.cache_data: a cached value is returned as it is; else the
\* query runs, returns one of its results or raises, and what run_query
\* returns is stored.  Each outcome is the data frame and the cache after it.
run_query(c, key, results, empty) ==
    IF key \in DOMAIN c
    THEN {[df |-> c[key], cache |-> c]}
    ELSE {[df |-> r, cache |-> (key :> r) @@ c]
          : r \in {Frame(x) : x \in results} \cup {FailedFrame(empty)}}

----------------------------------------------------------------------------
(* The script: one run of the page from the sidebar to section 3 *)

interval_options == {"Daily", "Weekly", "Monthly", "Quarterly", "Annual"}

interval_days ==
    [i \in interval_options |->
        CASE i = "Daily" -> 1
          [] i = "Weekly" -> 7
          [] i = "Monthly" -> 30
          [] i = "Quarterly" -> 90
          [] i = "Annual" -> 365]

\* a slip in the interval count: the floor at 1 left out
intervals_in_period_unfloored(sd, ed, iv) == (ed - sd) \div interval_days[iv]

\* max(1, (end_date - start_date).days // interval_days_count)
intervals_in_period(sd, ed, iv) == Max({1, (ed - sd) \div interval_days[iv]})

Range(q) == {q[i] : i \in 1..Len(q)}

IsWeekend(r) == r.day_name \in {"Saturday", "Sunday"}
IsWeekday(r) == ~IsWeekend(r)

\* df.loc[df['avg_utilisation_pct'].idxmax()]: the first row with the maximum
IdxMax(q) ==
    LET i == CHOOSE k \in 1..Len(q) :
                 /\ \A j \in 1..Len(q) :
                        ~RatLess(q[k].avg_utilisation_pct, q[j].avg_utilisation_pct)
                 /\ \A j \in 1..(k - 1) :
                        RatLess(q[j].avg_utilisation_pct, q[k].avg_utilisation_pct)
    IN  q[i]

\* a slip in a per-interval rate: the raw total, not divided
per_interval_undivided(total, n) == total

\* total / intervals_in_period, for a total given as a rational number
per_interval(total, n) == Ratio(total.num, total.den * n)

\* lost_rentals_estimate * avg_bike_rental_fee: 5 lost rentals per instance at
\* 1.65 pounds, in pounds
revenue_impact(count) == Ratio(count * 5 * 165, 100)

\* days.get(day_num, "Unknown")
get_day_name(day_num) == IF day_num \in 1..DaysPerWeek THEN DayName(day_num) ELSE "Unknown"

\* the text "Unknown", and the texts "<day> hh:00-hh:00" and "hh:00-hh:00"
Unknown == [text |-> "Unknown"]
DayTimeText(day, h) == [text |-> "day hh:00-hh:00", day |-> day, from |-> h, to |-> h + 1]
TimeText(h) == [text |-> "hh:00-hh:00", from |-> h, to |-> h + 1]

\* a slip in the Peak Day/Time column: the null test left out, so that int()
\* of a null peak_hour raises
peak_day_time_unguarded(row) ==
    IF notnull(row.peak_hour) /\ notnull(row.peak_day_of_week)
    THEN DayTimeText(get_day_name(ValueOf(row.peak_day_of_week)), ValueOf(row.peak_hour))
    ELSE [text |-> "ValueError"]

\* display_data['peak_day_time'] of one row
peak_day_time(row) ==
    IF notnull(row.peak_hour) /\ notnull(row.peak_day_of_week)
    THEN DayTimeText(get_day_name(ValueOf(row.peak_day_of_week)), ValueOf(row.peak_hour))
    ELSE Unknown

\* most_at_capacity_peak of the insight
most_at_capacity_peak(row) ==
    IF notnull(row.peak_hour) THEN TimeText(ValueOf(row.peak_hour)) ELSE Unknown

\* what section 2 leaves when the capacity query returned no rows
NoCapacity(full) ==
    [full_stations_df              |-> full,
     intervals_in_period           |-> NULL,
     most_at_capacity              |-> NULL,
     most_at_capacity_count        |-> NULL,
     most_at_capacity_peak         |-> NULL,
     peak_day_time                 |-> <<>>,
     capacity_instances_per_interval |-> NULL,
     revenue_impact                |-> NULL,
     station_names                 |-> <<>>,
     selected_station              |-> 0,
     hourly_capacity_df            |-> NULL,
     avg_near_capacity             |-> NULL,
     avg_at_capacity               |-> NULL,
     issues_per_interval           |-> NULL,
     peak_hour_weekday             |-> NULL,
     peak_hour_weekend             |-> NULL,
     error                         |-> "none"]

\* section 2.1 for the selected station, given the hourly data frame
Section21(sec, hourly, n) ==
    IF hourly.rows = <<>>
    THEN [sec EXCEPT !.hourly_capacity_df = Val(hourly)]
    ELSE LET weekday_data == SelectSeq(hourly.rows, IsWeekday)
             weekend_data == SelectSeq(hourly.rows, IsWeekend)
             near == SumOf([i \in 1..Len(hourly.rows) |->
                               hourly.rows[i].near_capacity_count], 1..Len(hourly.rows))
             at   == SumOf([i \in 1..Len(hourly.rows) |->
                               hourly.rows[i].at_capacity_count], 1..Len(hourly.rows))
             shown == [sec EXCEPT !.hourly_capacity_df = Val(hourly),
                                  !.avg_near_capacity = Val(near),
                                  !.avg_at_capacity = Val(at),
                                  !.issues_per_interval =
                                      Val(per_interval(Ratio(near + at, 1), n))]
         IN  \* idxmax of an empty column raises ValueError
             IF weekday_data = <<>> \/ weekend_data = <<>>
             THEN [shown EXCEPT !.error = "ValueError"]
             ELSE [shown EXCEPT !.peak_hour_weekday = Val(IdxMax(weekday_data)),
                                !.peak_hour_weekend = Val(IdxMax(weekend_data))]

\* section 2 given the capacity data frame: each outcome is what the section
\* computed and the cache after it
Section2(full, c, sd, ed, iv, sel, shownNames) ==
    IF full.rows = <<>>
    THEN {[sec |-> NoCapacity(full), cache |-> c]}
    ELSE LET first == full.rows[1]
             count == first.summary.instances_at_capacity
             n == intervals_in_period(sd, ed, iv)
             names == [i \in 1..Len(full.rows) |-> full.rows[i].summary.station_name]
             \* the selectbox keeps the user's choice while its options are the same
             station == IF names = shownNames /\ sel \in Range(names)
                        THEN sel ELSE names[1]
             sec == [NoCapacity(full) EXCEPT
                        !.intervals_in_period = Val(n),
                        !.most_at_capacity = Val(first.summary.station_name),
                        !.most_at_capacity_count = Val(count),
                        !.most_at_capacity_peak = Val(most_at_capacity_peak(first)),
                        !.peak_day_time =
                            [i \in 1..Len(full.rows) |-> peak_day_time(full.rows[i])],
                        !.capacity_instances_per_interval =
                            Val(per_interval(Ratio(count, 1), n)),
                        !.revenue_impact = Val(revenue_impact(count)),
                        !.station_names = names,
                        !.selected_station = station]
         IN  {[sec |-> Section21(sec, h.df, n), cache |-> h.cache]
              : h \in run_query(c, QueryKey("hourly_capacity", sd, ed, station),
                                hourly_capacity_results(sd, ed, station), <<>>)}

EmptyCombined == [peak_times |-> {}, station_flows |-> {}]

\* a slip in section 3: the failure of the combined query not caught, so that
\* the section ends in the query's exception
NoFlowsUncaught(combined) ==
    [combined_data                 |-> combined,
     generator_station             |-> NULL,
     accumulator_station           |-> NULL,
     total_imbalance               |-> NULL,
     total_trips                   |-> NULL,
     imbalance_pct                 |-> NULL,
     shown_total_imbalance         |-> NULL,
     bikes_rebalanced_per_interval |-> NULL,
     error                         |-> IF combined.ok THEN "none" ELSE "QueryError"]

NoFlows(combined) ==
    [combined_data                 |-> combined,
     generator_station             |-> NULL,
     accumulator_station           |-> NULL,
     total_imbalance               |-> NULL,
     total_trips                   |-> NULL,
     imbalance_pct                 |-> NULL,
     shown_total_imbalance         |-> NULL,
     bikes_rebalanced_per_interval |-> NULL,
     error                         |-> "none"]

\* a slip in the system imbalance percentage: the test of total_trips left out
imbalance_pct_unguarded(total_imbalance, total_trips) ==
    Ratio(total_imbalance.num * 100, total_imbalance.den * total_trips)

\* (total_imbalance / total_trips) * 100 if total_trips > 0 else 0
imbalance_pct(total_imbalance, total_trips) ==
    IF total_trips > 0
    THEN Ratio(total_imbalance.num * 100, total_imbalance.den * total_trips)
    ELSE Ratio(0, 1)

\* the rows of one side: generators (sign -1) or accumulators (sign 1)
SideOf(rows, sign) == {r \in rows : r.net_flow * sign > 0}

\* df.iloc[0]['name'] of one side sorted by net_flow: IndexError on an empty
\* frame, else the name of a row with the extreme net_flow (rows with equal
\* net_flow keep the order the query returned them in)
FirstName(side, sign) ==
    IF side = {} THEN {[raised |-> TRUE, name |-> NULL]}
    ELSE {[raised |-> FALSE, name |-> Val(r.name)]
          : r \in {x \in side : \A q \in side :
                      q.net_flow * sign <= x.net_flow * sign}}

\* a slip in the insight: the first row read without the emptiness guard
TopStationsUnguarded(rows, sign) == FirstName(SideOf(rows, sign), sign)

\* generators_df.iloc[0]['name'] if not generators_df.empty else a placeholder
\* text (accumulators_df alike); NULL stands for the placeholder
TopStations(rows, sign) ==
    IF SideOf(rows, sign) = {}
    THEN {[raised |-> FALSE, name |-> NULL]}
    ELSE FirstName(SideOf(rows, sign), sign)

\* section 3 given the combined data frame and intervals_in_period as section 2
\* left it (NULL: the name was never bound)
Section3(combined, n) ==
    LET flows == combined.rows.station_flows
        peaks == combined.rows.peak_times
        sumAbs == SumOf([r \in flows |-> Abs(r.net_flow)], flows)
        trips == SumOf([r \in flows |-> r.outflows], flows)
        base == NoFlows(combined)
        balance == [base EXCEPT !.total_imbalance = Val(Ratio(sumAbs, 2)),
                                !.total_trips = Val(trips),
                                !.imbalance_pct =
                                    Val(imbalance_pct(Ratio(sumAbs, 2), trips))]
        metrics == [balance EXCEPT
                       !.shown_total_imbalance = Val(sumAbs \div 2),
                       !.bikes_rebalanced_per_interval =
                           Val(per_interval(Ratio(sumAbs, 2), ValueOf(n)))]
    IN  IF flows = {} THEN {base}
        ELSE IF n = NULL
        THEN \* bikes_rebalanced_per_interval reads intervals_in_period
             {[balance EXCEPT !.error = "NameError"]}
        ELSE IF peaks = {} THEN {metrics}
        ELSE {[metrics EXCEPT !.generator_station = g.name,
                              !.accumulator_station = a.name,
                              !.error = IF g.raised \/ a.raised
                                        THEN "IndexError" ELSE "none"]
              : g \in TopStations(flows, -1), a \in TopStations(flows, 1)}

\* what a run renders: the sidebar, section 2 (capacity) and section 3 (flows);
\* a section the run did not reach is NULL; options are the options of the
\* station selectbox as the session remembers them
Page(err, n, sec2, sec3, names) ==
    [kind |-> "page", error |-> err, num_intervals |-> n,
     capacity |-> sec2, flows |-> sec3, options |-> names]

\* the whole script below the date inputs: every page it can render and the
\* cache it leaves
Script(c, sd, ed, iv, sel, shownNames) ==
    LET n == Val(intervals_in_period(sd, ed, iv))
    IN  UNION {
          UNION {
            IF s2.sec.error # "none"
            THEN {[page |-> Page(s2.sec.error, n, Val(s2.sec), NULL, s2.sec.station_names),
                   cache |-> s2.cache]}
            ELSE UNION {
                   {[page |-> Page(s3.error, n, Val(s2.sec), Val(s3), s2.sec.station_names),
                     cache |-> q3.cache]
                    : s3 \in Section3(q3.df, s2.sec.intervals_in_period)}
                   : q3 \in run_query(s2.cache,
                                      QueryKey("combined_analysis", sd, ed, 0),
                                      {combined_analysis_query(sd, ed)},
                                      EmptyCombined)}
            : s2 \in Section2(q2.df, q2.cache, sd, ed, iv, sel, shownNames)}
          : q2 \in run_query(c, QueryKey("full_stations", sd, ed, 0),
                             full_stations_query(sd, ed), <<>>)}

----------------------------------------------------------------------------
(* The tables the queries are applied to *)

Trip(s, e, st, et) ==
    [start_station_id |-> s, end_station_id |-> e, start_date |-> st, end_date |-> et]

\* the dates a user picks in the two date inputs
DateChoices == {MIN_DATE, default_start_date, default_end_date, MAX_DATE}

\* dock counts of the stations table (0: a station without docks)
DockChoices == {0, 20}

StationTables(ids) ==
    {[i \in ids |-> [name |-> i, docks_count |-> d[i]]] : d \in [ids -> DockChoices]}

\* every bag of at most k batches of equal hires, of the given shapes and sizes
Batches(shapes, sizes, k) ==
    UNION {[sub -> sizes] : sub \in {x \in SUBSET shapes : Cardinality(x) <= k}}

\* arrivals: two Sundays a week apart, two hours, and two times within one hour
ArrivalStamps == {Stamp(0, 0, 0), Stamp(0, 1, 0), Stamp(7, 0, 0), Stamp(7, 0, 30)}
ArrivalShapes ==
    {Trip(1, 1, t, t) : t \in ArrivalStamps}
        \cup {Trip(1, 2, Stamp(0, 0, 0), Stamp(0, 0, 0))}
ArrivalSizes == {1, 16, 19, 20}

\* journeys between the stations: one leaves at midnight, one later in the day
JourneyTimes == {<<Stamp(0, 0, 0), Stamp(0, 0, 30)>>, <<Stamp(7, 0, 30), Stamp(7, 1, 0)>>}
JourneyShapes ==
    {Trip(s, e, t[1], t[2]) : s \in {1, 2}, e \in {1, 2}, t \in JourneyTimes}
JourneySizes == {1, 20}

QueryDatasets ==
    Batches(ArrivalShapes, ArrivalSizes, MaxBatches)
        \cup Batches(JourneyShapes, JourneySizes, MaxBatches)

NoPage == [kind |-> "blank"]

Windows == {w \in DateChoices \X DateChoices : w[1] <= w[2]}

InitQuery ==
    /\ cycle_stations \in StationTables({1, 2})
    /\ cycle_hire \in QueryDatasets
    /\ \E w \in Windows : start_date = w[1] /\ end_date = w[2]
    /\ selected_interval = "Weekly"
    /\ selected_station = 0
    /\ cache = <<>>
    /\ page = NoPage

\* the capacity query applied to the window
ApplyCapacityQuery ==
    /\ \E df \in full_stations_query(start_date, end_date) :
           page' = [kind |-> "capacity", df |-> df]
    /\ UNCHANGED <<cycle_stations, cycle_hire, start_date, end_date,
                   selected_interval, selected_station, cache>>

\* the combined query applied to the window
ApplyCombinedQuery ==
    /\ page' = [kind |-> "combined",
                df |-> combined_analysis_query(start_date, end_date)]
    /\ UNCHANGED <<cycle_stations, cycle_hire, start_date, end_date,
                   selected_interval, selected_station, cache>>

NextQuery == ApplyCapacityQuery \/ ApplyCombinedQuery

SpecQuery == InitQuery /\ [][NextQuery]_vars

----------------------------------------------------------------------------
(* The ranking over more stations than it returns *)

\* the hours of a Monday in which the stations of these tables have arrivals
RankHours == <<8, 9, 10>>

\* the profiles of the stations that are the same in every table: arrivals in
\* each of these hours, 80% of the docks (16) or the docks and more (20, 21, 22:
\* no two hours of a station tie as its peak); no two of these stations have
\* the same counts of slots at capacity and at or above 80%
FixedProfiles ==
    <<(<<16, 0, 0>>), (<<16, 16, 0>>), (<<16, 16, 16>>),
      (<<20, 0, 0>>), (<<20, 16, 0>>), (<<20, 16, 16>>),
      (<<20, 21, 0>>), (<<20, 21, 16>>), (<<20, 21, 22>>)>>

\* the profiles the other stations are drawn from
RankProfiles == {<<a, b, 0>> : a \in {0, 16, 20}, b \in {0, 16, 21}}

RankStations == 1..NumRankStations

FreeStations == {i \in RankStations : i > Len(FixedProfiles)}

\* the hires of a table in which station i has profile prof[i]
RankHires(prof) ==
    LET slots == {<<i, k>> \in RankStations \X DOMAIN RankHours : prof[i][k] > 0}
        trip(x) == Trip(x[1], x[1], Stamp(1, RankHours[x[2]], 0),
                        Stamp(1, RankHours[x[2]], 0))
        slot(t) == CHOOSE x \in slots : trip(x) = t
    IN  [t \in {trip(x) : x \in slots} |-> prof[slot(t)[1]][slot(t)[2]]]

RankDatasets ==
    {RankHires([i \in RankStations |->
                   IF i \in FreeStations THEN free[i] ELSE FixedProfiles[i]])
     : free \in [FreeStations -> RankProfiles]}

InitRank ==
    /\ cycle_stations = [i \in RankStations |-> [name |-> i, docks_count |-> 20]]
    /\ cycle_hire \in RankDatasets
    /\ start_date = default_start_date
    /\ end_date = default_end_date
    /\ selected_interval = "Weekly"
    /\ selected_station = 0
    /\ cache = <<>>
    /\ page = NoPage

NextRank == ApplyCapacityQuery

SpecRank == InitRank /\ [][NextRank]_vars

----------------------------------------------------------------------------
(* The interval count over windows as long as the date inputs allow *)

\* the sidebar with the dates and the interval picked: a window of up to
\* MaxWindowDays days, counted from the start date, and any of the intervals
\* (the date inputs span eight years; MAX_DATE of the page model is that span
\* scaled down, and does not limit the windows here)
InitIntervals ==
    /\ cycle_stations = <<>>
    /\ cycle_hire = <<>>
    /\ start_date = MIN_DATE
    /\ end_date \in MIN_DATE..(MIN_DATE + MaxWindowDays)
    /\ selected_interval \in interval_options
    /\ selected_station = 0
    /\ cache = <<>>
    /\ page = NoPage

\* num_intervals of the sidebar, and intervals_in_period of section 2
ComputeIntervals ==
    /\ page' = [kind |-> "intervals",
                num_intervals |-> intervals_in_period(start_date, end_date,
                                                      selected_interval)]
    /\ UNCHANGED <<cycle_stations, cycle_hire, start_date, end_date,
                   selected_interval, selected_station, cache>>

\* raw totals the insights are computed from
InsightTotals == {0, 1, 21, 50}

\* the arithmetic of the insights on given totals: the at-capacity count of
\* the top-ranked station, the capacity issues of the selected station, and
\* the sum of |net_flow| of the station rows
ComputeInsights ==
    \E count \in InsightTotals, issues \in InsightTotals, sumAbs \in InsightTotals :
        LET n == intervals_in_period(start_date, end_date, selected_interval)
        IN  /\ page' = [kind |-> "insights",
                        most_at_capacity_count |-> count,
                        total_capacity_issues |-> issues,
                        sum_abs_net_flow |-> sumAbs,
                        capacity_instances_per_interval |->
                            per_interval(Ratio(count, 1), n),
                        revenue_impact |-> revenue_impact(count),
                        issues_per_interval |-> per_interval(Ratio(issues, 1), n),
                        bikes_rebalanced_per_interval |->
                            per_interval(Ratio(sumAbs, 2), n)]
            /\ UNCHANGED <<cycle_stations, cycle_hire, start_date, end_date,
                           selected_interval, selected_station, cache>>

NextIntervals == ComputeIntervals \/ ComputeInsights

SpecIntervals == InitIntervals /\ [][NextIntervals]_vars

----------------------------------------------------------------------------
(* The page: the script re-run on every user action, over the result cache *)

\* hires of the page's tables: a Monday morning and a Saturday morning
PageDays == {1, 6}
PageShapes ==
    {Trip(1, 2, Stamp(d, 8, 0), Stamp(d, 8, 30)) : d \in PageDays}
        \cup {Trip(2, 1, Stamp(1, 8, 0), Stamp(1, 8, 30))}
PageSizes == {16, 21}

\* trips [S1->S2, S1->S2, S2->S1]
ScenarioHires ==
    (Trip(1, 2, Stamp(1, 8, 0), Stamp(1, 8, 30)) :> 2)
        @@ (Trip(2, 1, Stamp(1, 8, 0), Stamp(1, 8, 30)) :> 1)

PageDatasets == Batches(PageShapes, PageSizes, MaxPageBatches) \cup {ScenarioHires}

\* the names station 1 can have: one without and one with an apostrophe
PageNames == {1, -1}

PageStationTables ==
    {[t EXCEPT ![1].name = n]
     : t \in {x \in StationTables({1, 2}) : x[1].docks_count > 0}, n \in PageNames}

\* the intervals a user picks in the sidebar
IntervalChoices == {"Daily", "Weekly"}

Init ==
    /\ cycle_stations \in PageStationTables
    /\ cycle_hire \in PageDatasets
    /\ start_date = default_start_date
    /\ end_date = default_end_date
    /\ selected_interval = "Weekly"
    /\ selected_station = 0
    /\ cache = <<>>
    /\ page = NoPage

\* the windows some cached result belongs to
CachedWindows(c) == {<<k.sd, k.ed>> : k \in DOMAIN c}

\* the entries of other windows have expired before the window changes
WindowFits(sd, ed) == Cardinality(CachedWindows(cache) \cup {<<sd, ed>>}) <= MaxCachedWindows

ShownNames == IF page.kind = "page" THEN page.options ELSE <<>>

\* one run of the script with the widgets at (sd, ed, iv, sel)
RunScript(sd, ed, iv, sel) ==
    \E o \in Script(cache, sd, ed, iv, sel, ShownNames) :
        /\ start_date' = sd
        /\ end_date' = ed
        /\ selected_interval' = iv
        /\ cache' = o.cache
        /\ \/ /\ page' = o.page
              /\ selected_station' = ValueOf(o.page.capacity).selected_station
           \* a run that raised before it rendered the station selectbox may
           \* leave the session's state of that widget as it was
           \/ /\ o.page.error # "none"
              /\ o.page.options = <<>>
              /\ page' = [o.page EXCEPT !.options = ShownNames]
              /\ UNCHANGED selected_station
        /\ UNCHANGED <<cycle_stations, cycle_hire>>

\* the end-date input raises: its value lies below its min_value
RaiseDateError(sd) ==
    /\ start_date' = sd
    /\ end_date' = default_end_date
    /\ \/ /\ page' = Page("StreamlitAPIException", NULL, NULL, NULL, <<>>)
          /\ selected_interval' = "Weekly"
          /\ selected_station' = 0
       \* the widgets below the date inputs were not rendered: the session may
       \* keep their state as it was
       \/ /\ page' = Page("StreamlitAPIException", NULL, NULL, NULL, ShownNames)
          /\ UNCHANGED <<selected_interval, selected_station>>
    /\ UNCHANGED <<cycle_stations, cycle_hire, cache>>

DateInputsRaise == page.kind = "page" /\ page.error = "StreamlitAPIException"

\* the browser loads the page, or the user re-runs it
Rerun ==
    IF DateInputsRaise
    THEN RaiseDateError(start_date)
    ELSE RunScript(start_date, end_date, selected_interval, selected_station)

\* a new start date makes the end-date input a new widget, at its default value
ChangeStartDate(d) ==
    /\ page.kind = "page"
    /\ d # start_date
    /\ IF default_end_date < d
       THEN RaiseDateError(d)
       ELSE /\ WindowFits(d, default_end_date)
            /\ RunScript(d, default_end_date, selected_interval, selected_station)

ChangeEndDate(d) ==
    /\ page.kind = "page" /\ ~DateInputsRaise
    /\ d # end_date /\ start_date <= d
    /\ WindowFits(start_date, d)
    /\ RunScript(start_date, d, selected_interval, selected_station)

ChangeInterval(iv) ==
    /\ page.kind = "page" /\ ~DateInputsRaise
    /\ iv # selected_interval
    /\ RunScript(start_date, end_date, iv, selected_station)

\* the user picks another of the options the station selectbox shows
ChangeStation(name) ==
    /\ page.kind = "page" /\ page.capacity # NULL
    /\ name \in Range(ValueOf(page.capacity).station_names)
    /\ name # selected_station
    /\ RunScript(start_date, end_date, selected_interval, name)

\* ttl=3600: a cached result expires
TtlExpire(key) ==
    /\ key \in DOMAIN cache
    /\ cache' = [k \in DOMAIN cache \ {key} |-> cache[k]]
    /\ UNCHANGED <<cycle_stations, cycle_hire, start_date, end_date,
                   selected_interval, selected_station, page>>

Next ==
    \/ Rerun
    \/ \E d \in DateChoices : ChangeStartDate(d)
    \/ \E d \in DateChoices : ChangeEndDate(d)
    \/ \E iv \in IntervalChoices : ChangeInterval(iv)
    \/ \E name \in {NameOf(id) : id \in DOMAIN cycle_stations} : ChangeStation(name)
    \/ \E key \in DOMAIN cache : TtlExpire(key)

Spec == Init /\ [][Next]_vars

\* A session that stays at the default dates: the page is reloaded, another
\* interval or station is picked, and cached results expire.  No cached result
\* of another window exists in it, so it does not depend on MaxCachedWindows.
NextSession ==
    \/ Rerun
    \/ \E iv \in IntervalChoices : ChangeInterval(iv)
    \/ \E name \in {NameOf(id) : id \in DOMAIN cycle_stations} : ChangeStation(name)
    \/ \E key \in DOMAIN cache : TtlExpire(key)

SpecSession == Init /\ [][NextSession]_vars

----------------------------------------------------------------------------
(* What the claims speak of, counted from the tables directly *)

\* the window as the two date inputs state it: whole days, both bounds included
InWindow(ts) == start_date <= ts.date /\ ts.date <= end_date

\* hires that end at station id on date d in hour h
ArrivalsAt(id, d, h) ==
    BagSum(cycle_hire, {t \in DOMAIN cycle_hire :
                           /\ t.end_station_id = id
                           /\ t.end_date.date = d
                           /\ t.end_date.hour = h})

\* the (date, hour) slots in which some hire ends
ArrivalSlots == {<<t.end_date.date, t.end_date.hour>> : t \in DOMAIN cycle_hire}

\* the slots of one station as the capacity query sees them
SlotsOf(name) ==
    {r \in hourly_station_status(start_date, end_date) : r.station_name = name}

RankedRows == {page.df[i] : i \in 1..Len(page.df)}

\* C1: in the ranking, instances_near_capacity counts exactly the slots with
\* 80 <= utilisation_pct < 100 and instances_at_capacity exactly those with
\* utilisation_pct >= 100, so no slot is counted in both.
C1_BucketsExclusive ==
    page.kind = "capacity" =>
        \A row \in RankedRows :
            LET slots == SlotsOf(row.summary.station_name)
            IN  /\ row.summary.instances_near_capacity =
                       Cardinality({r \in slots : /\ AtLeast(r, NearCapacityPct)
                                                  /\ ~AtLeast(r, AtCapacityPct)})
                /\ row.summary.instances_at_capacity =
                       Cardinality({r \in slots : AtLeast(r, AtCapacityPct)})

NetFlowSum ==
    LET rows == station_flows(start_date, end_date)
    IN  SumOf([r \in rows |-> r.net_flow], rows)

\* the stations at which a hire counted by station_flows starts or ends
TouchedStations ==
    UNION {{h.start_station_id, h.end_station_id} :
           h \in {t \in DOMAIN cycle_hire :
                     BETWEEN(t.start_date, TIMESTAMP(start_date), TIMESTAMP(end_date))}}

\* C2 as stated: the net flows of the station_flows rows sum to 0, whatever the
\* dock counts of the stations (every hire of the model starts and ends at a
\* station of cycle_stations).
C2_NetFlowConservation ==
    page.kind = "combined" => NetFlowSum = 0

\* C2 amended: the net flows of the station_flows rows sum to 0 when every
\* station at which a counted hire starts or ends has docks_count > 0.
C2_NetFlowConservationDocked ==
    (/\ page.kind = "combined"
     /\ \A id \in TouchedStations : cycle_stations[id].docks_count > 0)
        => NetFlowSum = 0

\* C2 witness: the combined query ran on a window with counted hires between
\* stations that all have docks, and a station has a non-zero net flow.
C2_Witness ==
    /\ page.kind = "combined"
    /\ TouchedStations # {}
    /\ \A id \in TouchedStations : cycle_stations[id].docks_count > 0
    /\ \E r \in station_flows(start_date, end_date) : r.net_flow # 0

\* C4: the utilisation calculator counts every hire that ends on a date d with
\* start_date <= d <= end_date, at any hour of d, and no other hire.
C4_WindowInclusive ==
    page.kind = "capacity" =>
        \A id \in DOMAIN cycle_stations : \A slot \in ArrivalSlots :
            LET n == ArrivalsAt(id, slot[1], slot[2])
                rows == {r \in hourly_station_status(start_date, end_date) :
                            /\ r.end_station_id = id
                            /\ r.date = slot[1]
                            /\ r.hour = slot[2]}
            IN  IF /\ cycle_stations[id].docks_count > 0
                   /\ n > 0
                   /\ start_date <= slot[1]
                   /\ slot[1] <= end_date
                THEN \E r \in rows : r.arrivals_in_hour = n
                ELSE rows = {}

\* the (hour, day of week) pairs in which a station has a slot at or above 95%
PeakCandidates(name) ==
    {<<r.hour, r.day_of_week>> : r \in {x \in SlotsOf(name) : AtLeast(x, PeakPct)}}

PeakSlots(name, c) ==
    {r \in SlotsOf(name) : AtLeast(r, PeakPct) /\ r.hour = c[1] /\ r.day_of_week = c[2]}

Occurrences(name, c) == Cardinality(PeakSlots(name, c))

ArrivalsIn(name, c) ==
    SumOf([r \in PeakSlots(name, c) |-> r.arrivals_in_hour], PeakSlots(name, c))

\* candidate c does not beat candidate d: fewer occurrences, or as many and an
\* average utilisation (at one station: average arrivals) that is not higher
NotBetter(name, c, d) ==
    \/ Occurrences(name, c) < Occurrences(name, d)
    \/ /\ Occurrences(name, c) = Occurrences(name, d)
       /\ ArrivalsIn(name, c) * Occurrences(name, d)
              <= ArrivalsIn(name, d) * Occurrences(name, c)

RankedNames == {r.summary.station_name : r \in RankedRows}

\* C6: every station with a slot at or above 95% has exactly one peak, a
\* candidate with the highest occurrence count and, among those, the highest
\* average utilisation; a station with no such slot has a null peak.
C6_PeakSelected ==
    page.kind = "capacity" =>
        /\ \A i, j \in 1..Len(page.df) :
               page.df[i].summary.station_name = page.df[j].summary.station_name => i = j
        /\ \A id \in DOMAIN cycle_stations :
               PeakCandidates(NameOf(id)) # {} => NameOf(id) \in RankedNames
        /\ \A row \in RankedRows :
               LET name == row.summary.station_name
               IN  IF PeakCandidates(name) = {}
                   THEN row.peak_hour = NULL /\ row.peak_day_of_week = NULL
                   ELSE /\ notnull(row.peak_hour) /\ notnull(row.peak_day_of_week)
                        /\ LET chosen == <<ValueOf(row.peak_hour),
                                           ValueOf(row.peak_day_of_week)>>
                           IN  /\ chosen \in PeakCandidates(name)
                               /\ row.peak_hour_occurrences
                                      = Val(Occurrences(name, chosen))
                               /\ \A c \in PeakCandidates(name) :
                                      NotBetter(name, c, chosen)

\* C6 witness: a ranked station has a candidate with more occurrences and a
\* candidate with fewer occurrences but a higher average, and the first is its peak.
C6_Witness ==
    /\ page.kind = "capacity"
    /\ \E row \in RankedRows :
           LET name == row.summary.station_name
           IN  \E c, d \in PeakCandidates(name) :
                   /\ Occurrences(name, c) > Occurrences(name, d)
                   /\ ArrivalsIn(name, d) * Occurrences(name, c)
                          > ArrivalsIn(name, c) * Occurrences(name, d)
                   /\ row.peak_hour = Val(c[1])
                   /\ row.peak_day_of_week = Val(c[2])

\* hires that start (end) at station id and start on a date of the window
StartsInWindow(id) ==
    BagSum(cycle_hire, {t \in DOMAIN cycle_hire :
                           t.start_station_id = id /\ InWindow(t.start_date)})
EndsInWindow(id) ==
    BagSum(cycle_hire, {t \in DOMAIN cycle_hire :
                           t.end_station_id = id /\ InWindow(t.start_date)})

Classification(net) ==
    IF net > 0 THEN "Accumulator (Fills Up)"
    ELSE IF net < 0 THEN "Generator (Empties Out)"
    ELSE "Balanced"

\* C9: every station row of the flow analysis has outflows = the hires of the
\* window starting at it, inflows = the hires of the window ending at it (a
\* hire from a station to itself counts in both) and net_flow = inflows -
\* outflows, and every reported station is classified Accumulator, Generator
\* or Balanced by the sign of its net_flow.
C9_FlowsCounted ==
    page.kind = "combined" =>
        /\ \A r \in station_flows(start_date, end_date) :
               /\ r.outflows = StartsInWindow(r.station_id)
               /\ r.inflows = EndsInWindow(r.station_id)
               /\ r.net_flow = r.inflows - r.outflows
        /\ \A row \in page.df.station_flows :
               row.station_type = Classification(row.net_flow)

\* C10: every slot has utilisation_pct = arrivals / docks x 100; a slot with as
\* many arrivals as docks is at exactly 100 and is counted as at capacity and
\* not as near capacity; a slot below 80% is counted in neither bucket.
C10_UtilisationBuckets ==
    page.kind = "capacity" =>
        /\ \A r \in hourly_station_status(start_date, end_date) :
               /\ r.utilisation_pct.num = r.arrivals_in_hour * 100
               /\ r.utilisation_pct.den = r.total_docks
               /\ r.arrivals_in_hour = r.total_docks =>
                      RatEq(r.utilisation_pct, Ratio(AtCapacityPct, 1))
        /\ \A row \in RankedRows :
               LET slots == SlotsOf(row.summary.station_name)
                   full  == {r \in slots : r.arrivals_in_hour >= r.total_docks}
                   busy  == {r \in slots : r.arrivals_in_hour * 100
                                               >= NearCapacityPct * r.total_docks}
               IN  /\ row.summary.instances_at_capacity = Cardinality(full)
                   /\ row.summary.instances_near_capacity
                          = Cardinality(busy \ full)

\* |net_flow| summed over every station of cycle_stations, from the hires that
\* start on a date of the window
SumAbsNetFlow ==
    SumOf([id \in DOMAIN cycle_stations |->
              Abs(EndsInWindow(id) - StartsInWindow(id))], DOMAIN cycle_stations)

\* C3: whenever a run raises nothing and renders section 3 from a combined query
\* that ran, over a window in which some station has a non-zero net flow,
\* 'Total Bikes Needing Rebalancing' shows the sum of |net_flow| over all
\* stations divided by 2 (1 for the trips S1->S2, S1->S2, S2->S1).
C3_TotalImbalance ==
    (/\ page.kind = "page"
     /\ page.error = "none"
     /\ page.flows # NULL
     /\ ValueOf(page.flows).combined_data.ok
     /\ SumAbsNetFlow > 0)
        => /\ ValueOf(page.flows).shown_total_imbalance # NULL
           /\ 2 * ValueOf(ValueOf(page.flows).shown_total_imbalance) = SumAbsNetFlow

\* C5: whenever the capacity query gave an empty data frame (no rows, or the
\* query failed) and the combined query gave station rows, section 3 has
\* computed the total imbalance and the per-interval rate and the run raised
\* nothing.
C5_ErrorsStayLocal ==
    (/\ page.kind = "page"
     /\ page.capacity # NULL
     /\ page.flows # NULL
     /\ ValueOf(page.capacity).full_stations_df.rows = <<>>
     /\ ValueOf(page.flows).combined_data.rows.station_flows # {})
        => /\ page.error = "none"
           /\ ValueOf(page.flows).total_imbalance # NULL
           /\ ValueOf(page.flows).bikes_rebalanced_per_interval # NULL

\* the capacity table a page shows, when the capacity query ran
CapacityTable(pg) ==
    IF pg.kind = "page" /\ pg.capacity # NULL
       /\ ValueOf(pg.capacity).full_stations_df.ok
    THEN Val(ValueOf(pg.capacity).full_stations_df.rows)
    ELSE NULL

\* C7: two runs on the same trips, stations and window show the same capacity
\* table: the same peak slot for every station and the same top 10 in the
\* same order.
C7_Deterministic ==
    [][(/\ start_date' = start_date
        /\ end_date' = end_date
        /\ CapacityTable(page) # NULL
        /\ CapacityTable(page') # NULL)
           => CapacityTable(page') = CapacityTable(page)]_vars

\* row a sorts strictly above row b by (instances_at_capacity,
\* instances_near_capacity), both descending
Outranks(a, b) ==
    \/ a.instances_at_capacity > b.instances_at_capacity
    \/ /\ a.instances_at_capacity = b.instances_at_capacity
       /\ a.instances_near_capacity > b.instances_near_capacity

\* the stations with a slot at or above 80% utilisation in the window
BusyStations ==
    {r.station_name : r \in {x \in hourly_station_status(start_date, end_date) :
                                AtLeast(x, NearCapacityPct)}}

SlotsAtCapacity(name) == Cardinality({r \in SlotsOf(name) : AtLeast(r, AtCapacityPct)})

\* C8: the ranking has at most 10 rows, in descending order of
\* (instances_at_capacity, instances_near_capacity); no station left out of it
\* sorts strictly above a returned one; and its first row has the most
\* at-capacity slots of all stations with a slot at or above 80%.
C8_TopTenOrdered ==
    page.kind = "capacity" =>
        /\ Len(page.df) <= TopN
        /\ \A i, j \in 1..Len(page.df) :
               i < j => ~Outranks(page.df[j].summary, page.df[i].summary)
        /\ \A s \in station_summary(start_date, end_date) :
               s.station_name \notin RankedNames =>
                   \A row \in RankedRows : ~Outranks(s, row.summary)
        /\ BusyStations # {} =>
               /\ Len(page.df) > 0
               /\ page.df[1].summary.station_name \in BusyStations
               /\ \A name \in BusyStations :
                      SlotsAtCapacity(name) <= page.df[1].summary.instances_at_capacity

\* C8 witness: every station has a slot at or above 80%, so one is left out of
\* the 10 rows, and the ranking runs from a station with an at-capacity slot
\* down to one with none.
C8_Witness ==
    /\ page.kind = "capacity"
    /\ Cardinality(BusyStations) > TopN
    /\ Len(page.df) = TopN
    /\ page.df[1].summary.instances_at_capacity > 0
    /\ page.df[TopN].summary.instances_at_capacity = 0
    /\ \E name \in BusyStations : name \notin RankedNames

\* the days of the window and of the selected interval
DaysInWindow == end_date - start_date

IntervalLength ==
    CASE selected_interval = "Daily" -> 1
      [] selected_interval = "Weekly" -> 7
      [] selected_interval = "Monthly" -> 30
      [] selected_interval = "Quarterly" -> 90
      [] selected_interval = "Annual" -> 365

\* C11: the interval count is at least 1 and is the number of whole intervals
\* in the window when there is one (1 otherwise); a zero-day window gives 1 and
\* a 70-day window with the weekly interval gives 10.
C11_IntervalsInPeriod ==
    page.kind = "intervals" =>
        LET n == page.num_intervals
        IN  /\ n >= 1
            /\ IF DaysInWindow < IntervalLength
               THEN n = 1
               ELSE /\ n * IntervalLength <= DaysInWindow
                    /\ DaysInWindow < (n + 1) * IntervalLength
            /\ DaysInWindow = 0 => n = 1
            /\ (DaysInWindow = 70 /\ selected_interval = "Weekly") => n = 10

\* C11 witness: the count of a 70-day window with the weekly interval is 10.
C11_Witness ==
    /\ page.kind = "intervals"
    /\ DaysInWindow = 70
    /\ selected_interval = "Weekly"
    /\ page.num_intervals = 10

\* the whole intervals of the window, at least 1
WholeIntervals ==
    IF DaysInWindow < IntervalLength THEN 1 ELSE DaysInWindow \div IntervalLength

\* rate r is total / WholeIntervals, for a total num / den
IsRateOf(r, num, den) == r.num * den * WholeIntervals = num * r.den

\* C12: revenue_impact is the at-capacity count of the top-ranked station x 5 x
\* 1.65, and each per-interval rate (capacity saturations, capacity issues,
\* bikes to rebalance) is its raw total divided by the interval count; 50
\* saturations over 10 weekly intervals give 5.0 per week.
C12_InsightArithmetic ==
    page.kind = "insights" =>
        /\ page.revenue_impact.num * 100
               = page.most_at_capacity_count * 5 * 165 * page.revenue_impact.den
        /\ IsRateOf(page.capacity_instances_per_interval, page.most_at_capacity_count, 1)
        /\ IsRateOf(page.issues_per_interval, page.total_capacity_issues, 1)
        /\ IsRateOf(page.bikes_rebalanced_per_interval, page.sum_abs_net_flow, 2)
        /\ (/\ page.most_at_capacity_count = 50
            /\ DaysInWindow = 70
            /\ selected_interval = "Weekly")
               => RatEq(page.capacity_instances_per_interval, Ratio(5, 1))

\* C12 witness: 50 saturations over a 70-day window with the weekly interval,
\* shown as 5 per week.
C12_Witness ==
    /\ page.kind = "insights"
    /\ page.most_at_capacity_count = 50
    /\ DaysInWindow = 70
    /\ selected_interval = "Weekly"
    /\ RatEq(page.capacity_instances_per_interval, Ratio(5, 1))
    /\ page.sum_abs_net_flow = 21

\* the sections of the page, when the run reached them
CapacitySection == ValueOf(page.capacity)
FlowsSection == ValueOf(page.flows)
ReachedCapacity == page.kind = "page" /\ page.capacity # NULL
ReachedFlows == page.kind = "page" /\ page.flows # NULL
ReachedHourly == ReachedCapacity /\ CapacitySection.hourly_capacity_df # NULL

\* C13: a query that failed gave its caller an empty data frame, and the caller
\* took its 'no data' branch without an exception: section 2 shows no ranking
\* and makes no hourly query, section 2.1 shows no station metrics, section 3
\* shows no peak times and no imbalance.
C13_FailureIsEmptyResult ==
    /\ (ReachedCapacity /\ ~CapacitySection.full_stations_df.ok) =>
           /\ CapacitySection.full_stations_df.rows = <<>>
           /\ CapacitySection.most_at_capacity = NULL
           /\ CapacitySection.station_names = <<>>
           /\ CapacitySection.hourly_capacity_df = NULL
           /\ CapacitySection.error = "none"
    /\ (ReachedHourly /\ ~ValueOf(CapacitySection.hourly_capacity_df).ok) =>
           /\ ValueOf(CapacitySection.hourly_capacity_df).rows = <<>>
           /\ CapacitySection.avg_near_capacity = NULL
           /\ CapacitySection.avg_at_capacity = NULL
           /\ CapacitySection.peak_hour_weekday = NULL
           /\ CapacitySection.peak_hour_weekend = NULL
           /\ CapacitySection.error = "none"
    /\ (ReachedFlows /\ ~FlowsSection.combined_data.ok) =>
           /\ FlowsSection.combined_data.rows.peak_times = {}
           /\ FlowsSection.combined_data.rows.station_flows = {}
           /\ FlowsSection.total_imbalance = NULL
           /\ FlowsSection.generator_station = NULL
           /\ FlowsSection.error = "none"
           /\ page.error = "none"

\* C13 witness: in one run the capacity query and the combined query failed,
\* over tables for which both have rows, and the run raised nothing.
C13_Witness ==
    /\ ReachedCapacity /\ ReachedFlows
    /\ ~CapacitySection.full_stations_df.ok
    /\ ~FlowsSection.combined_data.ok
    /\ page.error = "none"
    /\ \E df \in full_stations_query(start_date, end_date) : df # <<>>
    /\ combined_analysis_query(start_date, end_date).station_flows # {}

\* C14: the result cache holds only results of executions that completed: a
\* failed execution leaves no entry, so that the next run with the same
\* parameters executes the query again.
C14_FailureNotCached ==
    \A key \in DOMAIN cache : cache[key].ok

\* the generator and the accumulator rows the combined query returned
ReturnedSide(sign) ==
    {r \in FlowsSection.combined_data.rows.station_flows : r.net_flow * sign > 0}

\* C15: no run reads the first row of an empty table: the most problematic
\* station is read only from a non-empty ranking and is its first row, and the
\* top generator (accumulator) is named only when a generator (accumulator)
\* row exists, and is one of them.
C15_FirstRowGuarded ==
    /\ page.kind = "page" => page.error # "IndexError"
    /\ ReachedCapacity =>
           IF CapacitySection.full_stations_df.rows = <<>>
           THEN CapacitySection.most_at_capacity = NULL
           ELSE CapacitySection.most_at_capacity
                    = Val(CapacitySection.full_stations_df.rows[1].summary.station_name)
    /\ ReachedFlows =>
           /\ FlowsSection.generator_station # NULL =>
                  \E r \in ReturnedSide(-1) : FlowsSection.generator_station = Val(r.name)
           /\ FlowsSection.accumulator_station # NULL =>
                  \E r \in ReturnedSide(1) : FlowsSection.accumulator_station = Val(r.name)

\* C15 witness: a run over a non-empty ranking and an accumulator row but no
\* generator row, which names the accumulator and raises nothing.
C15_Witness ==
    /\ ReachedCapacity /\ ReachedFlows
    /\ page.error = "none"
    /\ CapacitySection.full_stations_df.rows # <<>>
    /\ FlowsSection.combined_data.rows.peak_times # {}
    /\ ReturnedSide(-1) = {}
    /\ ReturnedSide(1) # {}
    /\ FlowsSection.accumulator_station # NULL
    /\ FlowsSection.generator_station = NULL

\* C16: a ranked station none of whose slots reaches 95% has a null peak in
\* the ranking, and its peak is rendered as "Unknown" in the Peak Day/Time
\* column and, when it is the first row, in the insight on the most
\* problematic station; a station with such a slot has its peak rendered.
C16_MissingPeakUnknown ==
    ReachedCapacity =>
        LET rows == CapacitySection.full_stations_df.rows
        IN  /\ Len(CapacitySection.peak_day_time) = Len(rows)
            /\ \A i \in 1..Len(rows) :
                   IF PeakCandidates(rows[i].summary.station_name) = {}
                   THEN /\ rows[i].peak_hour = NULL
                        /\ CapacitySection.peak_day_time[i].text = "Unknown"
                        /\ i = 1 => ValueOf(CapacitySection.most_at_capacity_peak).text
                                        = "Unknown"
                   ELSE /\ CapacitySection.peak_day_time[i].text = "day hh:00-hh:00"
                        /\ CapacitySection.peak_day_time[i].from = ValueOf(rows[i].peak_hour)
                        /\ i = 1 => ValueOf(CapacitySection.most_at_capacity_peak).text
                                        = "hh:00-hh:00"

\* C16 witness: the first row of the ranking is a station whose only slots are
\* at 80%, both the column and the insight show "Unknown", and the run raised
\* nothing.
C16_Witness ==
    /\ ReachedCapacity
    /\ page.error = "none"
    /\ CapacitySection.full_stations_df.rows # <<>>
    /\ LET row == CapacitySection.full_stations_df.rows[1]
       IN  /\ PeakCandidates(row.summary.station_name) = {}
           /\ row.summary.instances_near_capacity > 0
           /\ row.peak_hour = NULL
    /\ CapacitySection.peak_day_time[1].text = "Unknown"
    /\ ValueOf(CapacitySection.most_at_capacity_peak).text = "Unknown"

\* the ratios a page shows: the utilisation of the hourly rows, the rates of
\* the insights, the imbalance percentages of the flow rows and of the system
ShownRatios ==
    (IF ReachedHourly
     THEN LET rows == ValueOf(CapacitySection.hourly_capacity_df).rows
          IN  {rows[i].avg_utilisation_pct : i \in 1..Len(rows)}
              \cup {rows[i].max_utilisation_pct : i \in 1..Len(rows)}
     ELSE {})
    \cup (IF ReachedCapacity
          THEN CapacitySection.capacity_instances_per_interval
               \cup CapacitySection.revenue_impact
               \cup CapacitySection.issues_per_interval
          ELSE {})
    \cup (IF ReachedFlows
          THEN {r.imbalance_pct : r \in FlowsSection.combined_data.rows.station_flows}
               \cup FlowsSection.imbalance_pct
               \cup FlowsSection.bikes_rebalanced_per_interval
               \cup FlowsSection.total_imbalance
          ELSE {})

\* C17: no ratio of a page has a zero denominator: a station without docks is
\* neither in the ranking nor in the flow rows, the system imbalance percentage
\* is 0 when total_trips is 0, and the interval count every rate is divided by
\* is at least 1.
C17_NoDivisionByZero ==
    /\ \A r \in ShownRatios : r.den > 0
    /\ ReachedCapacity =>
           /\ \A name \in Range(CapacitySection.station_names) :
                  \A id \in DOMAIN cycle_stations :
                      NameOf(id) = name => cycle_stations[id].docks_count > 0
           /\ \A n \in CapacitySection.intervals_in_period : n >= 1
           /\ \A n \in page.num_intervals : n >= 1
    /\ ReachedFlows =>
           /\ \A r \in FlowsSection.combined_data.rows.station_flows :
                  r.total_docks > 0 /\ cycle_stations[r.id].docks_count > 0
           /\ FlowsSection.total_trips = Val(0) =>
                  FlowsSection.imbalance_pct = Val(Ratio(0, 1))

\* C17 witness: hires end at a station with docks and start at one without, so
\* that the flow rows have no outflows: total_trips is 0 and the system
\* imbalance percentage is 0.
C17_Witness ==
    /\ ReachedCapacity /\ ReachedFlows
    /\ page.error = "none"
    /\ \E id \in DOMAIN cycle_stations :
           cycle_stations[id].docks_count = 0 /\ StartsInWindow(id) > 0
    /\ FlowsSection.combined_data.rows.station_flows # {}
    /\ FlowsSection.total_trips = Val(0)
    /\ FlowsSection.imbalance_pct = Val(Ratio(0, 1))
    /\ CapacitySection.full_stations_df.rows # <<>>

\* C18: after every run the dates satisfy MIN_DATE <= start_date <= end_date <=
\* MAX_DATE, and no choice of a start date the widget allows ends in an error
\* of the date inputs.
C18_DatesValid ==
    page.kind = "page" =>
        /\ page.error # "StreamlitAPIException"
        /\ MIN_DATE <= start_date
        /\ start_date <= end_date
        /\ end_date <= MAX_DATE

\* C19: whenever the hourly data frame of the selected station has rows,
\* section 2.1 ends without an exception, also when all its rows are weekday
\* rows or all are weekend rows.
C19_StationInsightsProduced ==
    (/\ ReachedHourly
     /\ ValueOf(CapacitySection.hourly_capacity_df).rows # <<>>)
        => CapacitySection.error = "none"

\* the hourly breakdown of the selected station as the page has it, and the
\* sums of its two count columns
HourlyBreakdown == ValueOf(CapacitySection.hourly_capacity_df)
HourlySum(col) ==
    SumOf([i \in 1..Len(HourlyBreakdown.rows) |-> HourlyBreakdown.rows[i][col]],
          1..Len(HourlyBreakdown.rows))

\* the hourly query of the page's selected station is one that can be executed
HourlyQueryRuns ==
    hourly_capacity_results(start_date, end_date, CapacitySection.selected_station) # {}

\* C20: the selected station is one of the names of the ranking shown, and
\* unless an execution that could have succeeded failed, the hourly breakdown
\* agrees with the ranking for that station over the same window: its
\* at_capacity_count column sums to the station's instances_at_capacity, and
\* its near_capacity_count and at_capacity_count columns together sum to the
\* number of the station's slots with utilisation_pct >= 80.
C20_SelectionAgrees ==
    (ReachedHourly /\ CapacitySection.station_names # <<>>) =>
        LET sel == CapacitySection.selected_station
            ranking == CapacitySection.full_stations_df.rows
        IN  /\ sel \in Range(CapacitySection.station_names)
            /\ (HourlyBreakdown.ok \/ ~HourlyQueryRuns) =>
                   /\ \E i \in 1..Len(ranking) :
                          /\ ranking[i].summary.station_name = sel
                          /\ HourlySum("at_capacity_count") =
                                 ranking[i].summary.instances_at_capacity
                   /\ HourlySum("near_capacity_count") + HourlySum("at_capacity_count") =
                          Cardinality({r \in SlotsOf(sel) : AtLeast(r, NearCapacityPct)})

====
